---- MODULE Spec2Model ----
(***************************************************************************)
(* Model of the importaccounts management command                          *)
(* (src/xorgauth/management/commands/importaccounts.py, Command.handle).   *)
(*                                                                         *)
(* The persistent store is five tables (roles, users, groups, memberships, *)
(* aliases), each a sequence of rows whose index is the primary key, so    *)
(* that duplicate rows are representable.  Text values are sequences of    *)
(* one-character strings, so that lower-casing and splitting at '@' are    *)
(* computed.  One import run is StartRun, then Bootstrap, then per record  *)
(* SkipVirtual or ReconcileUser, AddAdmin, ImportGroup*, ImportAlias*,     *)
(* ImportTypeRole, and finally FinishRun; an exception ends the run.       *)
(* The documents of one behaviour are lists over one pool of records       *)
(* (accounts_pool); ops is the log of store operations of the last step.   *)
(* SpecResolve applies the display name fallback alone to a record         *)
(* (resolve_input) and keeps what it gives (resolve_result).               *)
(***************************************************************************)
EXTENDS Integers, Sequences, FiniteSets, TLC

VARIABLES roles, users, groups, memberships, aliases,
          jsondata, idx_account, pc, err, user, groups_pos, email_pos,
          current_user_aliases, ops, runs, rerun, accounts_pool,
          resolve_input, resolve_result

store == <<roles, users, groups, memberships, aliases>>
vars == <<roles, users, groups, memberships, aliases,
          jsondata, idx_account, pc, err, user, groups_pos, email_pos,
          current_user_aliases, ops, runs, rerun, accounts_pool, resolve_input, resolve_result>>

----------------------------------------------------------------------------
(* Bounds of the model. *)

\* Longest accounts list of a dataset.
MaxAccounts == 2

\* Number of import runs in one behaviour.
MaxRuns == 2

----------------------------------------------------------------------------
(* Text: str.lower(), str.split('@')[0], str(int), truthiness. *)

UpperChars == <<"A", "B", "C", "D", "E", "F", "G", "H", "I", "J", "K", "L", "M",
                "N", "O", "P", "Q", "R", "S", "T", "U", "V", "W", "X", "Y", "Z">>

LowerChars == <<"a", "b", "c", "d", "e", "f", "g", "h", "i", "j", "k", "l", "m",
                "n", "o", "p", "q", "r", "s", "t", "u", "v", "w", "x", "y", "z">>

LowerChar(c) ==
    IF \E i \in DOMAIN UpperChars : UpperChars[i] = c
    THEN LowerChars[CHOOSE i \in DOMAIN UpperChars : UpperChars[i] = c]
    ELSE c

\* Mutant of Lower: the text is compared and stored as it is written.
LowerKeepsCase(s) == s

\* str.lower()
Lower(s) == [i \in 1..Len(s) |-> LowerChar(s[i])]

\* Mutant of SplitAtFirst: the text before the last '@' is taken.
SplitAtLast(s) ==
    IF \E i \in 1..Len(s) : s[i] = "@"
    THEN SubSeq(s, 1, (CHOOSE i \in 1..Len(s) :
                          s[i] = "@" /\ \A j \in (i + 1)..Len(s) : s[j] # "@") - 1)
    ELSE s

\* Mutant of SplitAtFirst: the whole address is taken.
SplitAtFirstWhole(s) == s

\* s.split('@')[0]: the text before the first '@', the whole text without one.
SplitAtFirst(s) ==
    IF \E i \in 1..Len(s) : s[i] = "@"
    THEN SubSeq(s, 1, (CHOOSE i \in 1..Len(s) :
                          s[i] = "@" /\ \A j \in 1..(i - 1) : s[j] # "@") - 1)
    ELSE s

Digits == <<"0", "1", "2", "3", "4", "5", "6", "7", "8", "9">>

RECURSIVE StrOfNat(_)
\* str(n) of a non-negative integer
StrOfNat(n) ==
    IF n < 10 THEN <<Digits[n + 1]>>
    ELSE StrOfNat(n \div 10) \o <<Digits[(n % 10) + 1]>>

\* JSON null / Python None, and a present value, for the optional fields.
None == <<>>
Some(v) == <<v>>

\* schoolid: str(account_data['xorg_id']) if account_data['xorg_id'] else None
SchoolId(xorg_id) ==
    IF xorg_id # None /\ xorg_id[1] # 0 THEN Some(StrOfNat(xorg_id[1])) ELSE None

----------------------------------------------------------------------------
(* Collaborators that live outside the command: hasher and model validation. *)

NoErr == "none"

\* hasher.encode_sha1_hash(password): an opaque stored representation.
EncodeSha1Hash(password) == <<"pbkdf2_wrapped_sha1", password>>

\* user.set_unusable_password(): the unusable sentinel.
UnusablePassword == <<"!">>

\* user.has_usable_password()
HasUsablePassword(u) == u.password # UnusablePassword

HasAt(s) == \E i \in 1..Len(s) : s[i] = "@"

ValidPerms == {"member", "admin"}

\* Role.full_clean(): the identifier is required.
RoleFullClean(r) == r.hrid # ""

\* User.full_clean(): main_email has the format of an email address.
UserFullClean(u) == HasAt(u.main_email)

\* GroupMembership.full_clean(): perms is one of the declared choices.
MembershipFullClean(m) == m.perms \in ValidPerms

\* UserAlias.full_clean(): email has the format of an email address.
AliasFullClean(a) == HasAt(a.email)

----------------------------------------------------------------------------
(* The role catalog. *)

AdminRole == "admin"

\* role_displays, in the order of the dictionary literal
RoleDisplays == << <<"x", "X">>, <<"master", "Master">>, <<"phd", "PhD">>,
                   <<"ax", "AX">>, <<"fx", "FX">>, <<"school", "School">>,
                   <<"xnet", "External">> >>

\* Mutant of TypeRoleNames: only the alumni types have a role.
TypeRoleNamesAlumni == {"x", "master", "phd"}

\* the keys of type_roles after the bootstrap loop
TypeRoleNames == {RoleDisplays[i][1] : i \in DOMAIN RoleDisplays}

\* One entry of the log of store operations of a step.
Ev(op, ent, val) == [op |-> op, ent |-> ent, val |-> val]

\* Role.get_admin() finds the admin role.
HasAdminRole(rs) == \E i \in DOMAIN rs : rs[i].hrid = AdminRole

\* Mutant of RolePks: the lookup finds nothing, every bootstrap creates.
RolePksNone(rs, hrid) == {}

\* Role.objects.filter(hrid=rolename): the primary keys of the rows found.
RolePks(rs, hrid) == {i \in DOMAIN rs : rs[i].hrid = hrid}

RECURSIVE BootstrapFrom(_, _, _)
\* The loop of lines 37-44 from entry i on: get_or_create each role and, when
\* it was created, set its display, validate and save it.  Gives the role
\* table, the log and the error.
BootstrapFrom(i, rs, log) ==
    IF i > Len(RoleDisplays) THEN [roles |-> rs, ops |-> log, err |-> NoErr]
    ELSE
      LET rolename == RoleDisplays[i][1]
          roledisplay == RoleDisplays[i][2]
          n == Cardinality(RolePks(rs, rolename))
      IN  IF n > 1
          THEN [roles |-> rs, ops |-> log, err |-> "MultipleObjectsReturned"]
          ELSE IF n = 1 THEN BootstrapFrom(i + 1, rs, log)
          ELSE
            LET created == [hrid |-> rolename, display |-> ""]
                shown == [hrid |-> rolename, display |-> roledisplay]
                log1 == log \o <<Ev("create", "Role", created),
                                 Ev("validate", "Role", shown)>>
            IN  IF ~RoleFullClean(shown)
                THEN [roles |-> Append(rs, created), ops |-> log1,
                      err |-> "ValidationError"]
                ELSE BootstrapFrom(i + 1, Append(rs, shown),
                                   log1 \o <<Ev("save", "Role", shown)>>)

----------------------------------------------------------------------------
(* Per-record pure parts: display name, field mapping, credential policy. *)

\* Mutant of IsVirtual: the comparison is against another spelling.
IsVirtualMisspelt(account_data) == account_data.type = "Virtual"

\* Line 49: is the account a virtual one
IsVirtual(account_data) == account_data.type = "virtual"

\* Lines 66-87: the display name fallback.  Gives the error, and the record
\* with display_name and full_name as the rest of the loop body sees them.
ResolveDisplayName(account_data) ==
    IF account_data.display_name # <<>>
    THEN [err |-> NoErr, data |-> account_data]
    ELSE IF account_data.firstname # <<>>
    THEN [err |-> NoErr,
          data |-> [account_data EXCEPT !.display_name = account_data.firstname]]
    ELSE IF account_data.type # "xnet"
    THEN [err |-> "IncompleteRecord", data |-> account_data]
    ELSE LET display_name == SplitAtFirst(account_data.email)
         IN  IF display_name = <<>>
             THEN [err |-> "IncompleteRecord", data |-> account_data]
             ELSE [err |-> NoErr,
                   data |-> [account_data EXCEPT
                               !.display_name = display_name,
                               !.full_name = IF account_data.full_name = <<>>
                                             THEN display_name
                                             ELSE account_data.full_name]]

FieldNames == {"fullname", "preferred_name", "main_email", "axid", "schoolid",
               "xorgdb_uid", "firstname", "lastname", "sex", "study_year",
               "grad_year"}

\* Lines 90-102: user_fields
UserFields(account_data) ==
    [fullname |-> account_data.full_name,
     preferred_name |-> account_data.display_name,
     main_email |-> Lower(account_data.email),
     axid |-> account_data.ax_id,
     schoolid |-> SchoolId(account_data.xorg_id),
     xorgdb_uid |-> account_data.uid,
     firstname |-> account_data.firstname,
     lastname |-> account_data.lastname,
     sex |-> account_data.sex,
     study_year |-> account_data.promo,
     grad_year |-> account_data.grad_year]

\* Mutant of FieldsDiffer: no difference is ever seen.
FieldsDifferNever(u, user_fields) == FALSE

\* Lines 104-113: does any mapped field differ from the entity's value
FieldsDiffer(u, user_fields) == \E f \in FieldNames : u[f] # user_fields[f]

\* Lines 104-113: the entity after the differing fields were set
SetFields(u, user_fields) ==
    [f \in DOMAIN u |-> IF f \in FieldNames /\ u[f] # user_fields[f]
                        THEN user_fields[f] ELSE u[f]]

\* User(hrid=hrid): an unsaved user
NewUser(hrid) ==
    [hrid |-> hrid, fullname |-> <<>>, preferred_name |-> <<>>,
     main_email |-> <<>>, axid |-> <<>>, schoolid |-> None, xorgdb_uid |-> None,
     firstname |-> <<>>, lastname |-> <<>>, sex |-> "", study_year |-> None,
     grad_year |-> None, password |-> <<"">>, roles |-> {}]

\* Mutant of SetsPassword: the usable credential is not looked at.
SetsPasswordAlways(is_creating_user, u, password) == password # ""

\* Mutant of SetsPassword: only a new user gets the record's password.
SetsPasswordNewOnly(is_creating_user, u, password) ==
    is_creating_user /\ password # ""

\* Lines 115-127, the condition under which the record's password is hashed
\* and stored.
SetsPassword(is_creating_user, u, password) ==
    IF is_creating_user THEN password # ""
    ELSE ~HasUsablePassword(u) /\ password # ""

\* Lines 115-127: the credential after the policy
PasswordAfter(is_creating_user, u, password) ==
    IF SetsPassword(is_creating_user, u, password) THEN EncodeSha1Hash(password)
    ELSE IF is_creating_user THEN UnusablePassword
    ELSE u.password

\* Mutant of IsUserModified: the user is saved whether modified or not.
IsUserModifiedAlways(is_creating_user, u, user_fields, password) == TRUE

\* Lines 103-125: is_user_modified
IsUserModified(is_creating_user, u, user_fields, password) ==
    \/ is_creating_user
    \/ FieldsDiffer(u, user_fields)
    \/ SetsPassword(is_creating_user, u, password)

----------------------------------------------------------------------------
(* Input: the account records the datasets are built from. *)

EmailA == <<"a", "@", "x">>
EmailAUpper == <<"A", "@", "x">>
EmailB == <<"b", "@", "x">>
EmailNoLocal == <<"@", "x">>
EmailNoAt == <<"b">>
EmailTwoAts == <<"c", "@", "d", "@", "x">>
NameAl == <<"A", "l">>
NameBo == <<"B", "o">>
NameLee == <<"L", "e", "e">>
NameKim == <<"K", "i", "m">>

\* A complete record of an alumni account.
BaseAccount(hruid) ==
    [type |-> "x", hruid |-> hruid, display_name |-> NameAl,
     full_name |-> NameAl \o <<" ">> \o NameLee, firstname |-> NameAl,
     lastname |-> NameLee, email |-> EmailAUpper, email_source |-> <<>>,
     sex |-> "male", promo |-> Some(2001), grad_year |-> Some(2004),
     ax_id |-> <<"7">>, xorg_id |-> Some(42), uid |-> Some(1),
     password |-> "sha1-one", is_admin |-> FALSE, groups |-> <<>>]

\* u1 with two spellings of one alias and one group
AccountOne ==
    [BaseAccount("u1") EXCEPT !.email_source = <<EmailAUpper, EmailA>>,
                              !.groups = << <<"g1", "member">> >>]

\* u1 again: another last name, type, password and permission, administrator
AccountOneChanged ==
    [BaseAccount("u1") EXCEPT !.lastname = NameKim, !.type = "master",
                              !.password = "sha1-two", !.is_admin = TRUE,
                              !.groups = << <<"g1", "admin">> >>]

\* u2, external, named after its email, without password, claiming u1's alias
AccountTwoExternal ==
    [BaseAccount("u2") EXCEPT !.type = "xnet", !.display_name = <<>>,
                              !.full_name = <<>>, !.firstname = <<>>,
                              !.email = EmailB, !.password = "",
                              !.xorg_id = None, !.uid = Some(2),
                              !.email_source = <<EmailB, EmailAUpper>>,
                              !.groups = << <<"g1", "member">>,
                                            <<"g2", "member">> >>]

\* u2 named after its first name, with a password and a zero xorg_id
AccountTwo ==
    [BaseAccount("u2") EXCEPT !.display_name = <<>>, !.firstname = NameBo,
                              !.email = EmailB, !.xorg_id = Some(0),
                              !.uid = Some(2), !.is_admin = TRUE,
                              !.email_source = <<EmailB>>]

\* u1 without display name nor first name, not external
AccountIncomplete ==
    [AccountOne EXCEPT !.display_name = <<>>, !.firstname = <<>>,
                       !.is_admin = TRUE]

\* u2, external, whose email has no local part
AccountNoLocalPart ==
    [AccountTwoExternal EXCEPT !.email = EmailNoLocal, !.is_admin = TRUE]

\* a virtual account with everything else filled in
AccountVirtual ==
    [AccountTwoExternal EXCEPT !.type = "virtual", !.is_admin = TRUE]

\* u1 with a permission the membership model rejects
AccountBadPerms ==
    [BaseAccount("u1") EXCEPT !.groups = << <<"g2", "owner">> >>]

\* u2 with a primary email the user model rejects
AccountBadEmail ==
    [AccountTwo EXCEPT !.email = EmailNoAt]

\* u1 with an account type that role_displays does not list, and another
\* password
AccountOtherType ==
    [AccountOne EXCEPT !.type = "pi", !.password = "sha1-two"]

\* The records the loader's files are made of, by the kind of import: records
\* that reconcile, records that are incomplete or virtual, records that the
\* models reject.
AccountPools ==
    {{AccountOne, AccountOneChanged, AccountTwoExternal, AccountTwo, AccountOtherType},
     {AccountOne, AccountTwoExternal, AccountIncomplete, AccountNoLocalPart,
      AccountVirtual},
     {AccountOne, AccountTwo, AccountBadPerms, AccountBadEmail, AccountVirtual}}

RECURSIVE SeqsUpTo(_, _)
\* The sequences over S of length at most n.
SeqsUpTo(S, n) ==
    IF n = 0 THEN {<<>>}
    ELSE LET shorter == SeqsUpTo(S, n - 1)
         IN  shorter \cup {Append(q, x) : q \in shorter, x \in S}

\* A document without the accounts key.
NoDocument == [has_accounts |-> FALSE, accounts |-> <<>>]

\* The parsed JSON documents over a pool of records: with an accounts list,
\* or without the key.
JsonDocuments(pool) ==
    {[has_accounts |-> TRUE, accounts |-> q] : q \in SeqsUpTo(pool, MaxAccounts)}
    \cup {NoDocument}

----------------------------------------------------------------------------
(* Store queries. *)

\* Mutant of UserPks: no user is ever found.
UserPksNone(hrid) == {}

\* User.objects.filter(hrid=hrid)
UserPks(hrid) == {i \in DOMAIN users : users[i].hrid = hrid}

\* Group.objects.filter(shortname=groupname)
GroupPks(gs, groupname) == {i \in DOMAIN gs : gs[i].shortname = groupname}

\* GroupMembership.objects.filter(group=group, user=user)
MembershipPks(group, u) ==
    {i \in DOMAIN memberships :
        memberships[i].group = group /\ memberships[i].user = u}

\* Mutant of AliasPks: the alias is looked up among the user's own only.
AliasPksOfUser(email) ==
    {i \in DOMAIN aliases : aliases[i].email = email /\ aliases[i].user = user}

\* UserAlias.objects.filter(email=email)
AliasPks(email) == {i \in DOMAIN aliases : aliases[i].email = email}

\* The only element of a one-element set.
TheOne(S) == CHOOSE x \in S : TRUE

\* The record the loop of line 47 is at.
AccountData == jsondata.accounts[idx_account]

\* Mutant of Raise: the error is noted and the loop goes to the next record.
RaiseAndContinue(e) ==
    /\ pc' = IF pc = "bootstrap" THEN "exit" ELSE "account"
    /\ idx_account' = idx_account + 1
    /\ err' = e
    /\ user' = 0
    /\ groups_pos' = 0
    /\ email_pos' = 0
    /\ current_user_aliases' = {}
    /\ UNCHANGED <<jsondata, runs, rerun, accounts_pool, resolve_input, resolve_result>>

\* An exception leaves handle(): the run is over, nothing is rolled back.
Raise(e) ==
    /\ pc' = "exit"
    /\ err' = e
    /\ user' = 0
    /\ groups_pos' = 0
    /\ email_pos' = 0
    /\ current_user_aliases' = {}
    /\ UNCHANGED <<jsondata, idx_account, runs, rerun, accounts_pool, resolve_input, resolve_result>>

\* The loop of line 47 goes to the next record.
NextAccount ==
    /\ pc' = "account"
    /\ idx_account' = idx_account + 1
    /\ user' = 0
    /\ groups_pos' = 0
    /\ email_pos' = 0
    /\ current_user_aliases' = {}
    /\ UNCHANGED <<jsondata, err, runs, rerun, accounts_pool, resolve_input, resolve_result>>

----------------------------------------------------------------------------
(* The steps of handle(). *)

\* Mutant of HasAccountsKey: the key is never missed.
HasAccountsKeyAlways(doc) == TRUE

\* Line 20: 'accounts' in jsondata.
HasAccountsKey(doc) == doc.has_accounts

\* Lines 16-21: load the JSON document and look for its accounts key.
StartRun ==
    /\ pc = "idle"
    /\ runs < MaxRuns
    /\ \E doc \in JsonDocuments(accounts_pool) :
          /\ jsondata' = doc
          /\ rerun' = (runs > 0 /\ err = NoErr /\ doc = jsondata)
          /\ IF HasAccountsKey(doc)
             THEN pc' = "bootstrap" /\ err' = NoErr
             ELSE pc' = "exit" /\ err' = "MissingAccountsCollection"
    /\ runs' = runs + 1
    /\ idx_account' = 0
    /\ ops' = <<>>
    /\ UNCHANGED <<store, user, groups_pos, email_pos, current_user_aliases,
                   accounts_pool, resolve_input, resolve_result>>

\* Lines 22-46: look the admin role up and bootstrap the type roles.
Bootstrap ==
    /\ pc = "bootstrap"
    /\ IF ~HasAdminRole(roles)
       THEN /\ Raise("DoesNotExist")
            /\ ops' = <<>>
            /\ UNCHANGED store
       ELSE LET r == BootstrapFrom(1, roles, <<>>)
            IN  /\ roles' = r.roles
                /\ ops' = r.ops
                /\ UNCHANGED <<users, groups, memberships, aliases>>
                /\ IF r.err # NoErr
                   THEN Raise(r.err)
                   ELSE /\ pc' = "account"
                        /\ idx_account' = 1
                        /\ UNCHANGED <<jsondata, err, user, groups_pos,
                                       email_pos, current_user_aliases, runs,
                                       rerun, accounts_pool, resolve_input, resolve_result>>

\* Lines 47-50: a virtual account is not imported.
SkipVirtual ==
    /\ pc = "account"
    /\ idx_account <= Len(jsondata.accounts)
    /\ IsVirtual(AccountData)
    /\ NextAccount
    /\ ops' = <<>>
    /\ UNCHANGED store

\* Lines 52-132: find or construct the user, resolve the display name, set the
\* differing fields, apply the credential policy, validate and save.
ReconcileUser ==
    /\ pc = "account"
    /\ idx_account <= Len(jsondata.accounts)
    /\ ~IsVirtual(AccountData)
    /\ UNCHANGED <<roles, groups, memberships, aliases>>
    /\ LET hrid == AccountData.hruid
           found == UserPks(hrid)
           is_creating_user == found = {}
           resolved == ResolveDisplayName(AccountData)
       IN  IF Cardinality(found) > 1
           THEN Raise("MultipleObjectsReturned") /\ ops' = <<>> /\ UNCHANGED users
           ELSE IF resolved.err # NoErr
           THEN Raise(resolved.err) /\ ops' = <<>> /\ UNCHANGED users
           ELSE
             LET before == IF is_creating_user THEN NewUser(hrid)
                           ELSE users[TheOne(found)]
                 user_fields == UserFields(resolved.data)
                 password == AccountData.password
                 after == [SetFields(before, user_fields) EXCEPT !.password =
                              PasswordAfter(is_creating_user, before, password)]
                 pk == IF is_creating_user THEN Len(users) + 1 ELSE TheOne(found)
             IN  IF ~IsUserModified(is_creating_user, before, user_fields, password)
                 THEN /\ ops' = <<>>
                      /\ users' = users
                      /\ pc' = "admin"
                      /\ user' = pk
                      /\ UNCHANGED <<jsondata, idx_account, err, groups_pos,
                                     email_pos, current_user_aliases, runs, rerun, accounts_pool, resolve_input, resolve_result>>
                 ELSE IF ~UserFullClean(after)
                 THEN /\ Raise("ValidationError")
                      /\ ops' = <<Ev("validate", "User", after)>>
                      /\ users' = users
                 ELSE /\ ops' = <<Ev("validate", "User", after),
                                  Ev(IF is_creating_user THEN "create" ELSE "save",
                                     "User", after)>>
                      /\ users' = IF is_creating_user THEN Append(users, after)
                                  ELSE [users EXCEPT ![pk] = after]
                      /\ pc' = "admin"
                      /\ user' = pk
                      /\ UNCHANGED <<jsondata, idx_account, err, groups_pos,
                                     email_pos, current_user_aliases, runs, rerun, accounts_pool, resolve_input, resolve_result>>

\* Mutant of AddRole: the role takes the place of the roles held.
SetRole(held, role) == {role}

\* Lines 136 and 174, user.roles.add(role): the roles held, and the role.
AddRole(held, role) == held \cup {role}

\* Mutant of NeedsAdminRole: the role is attached to every administrator.
NeedsAdminRoleAlways(account_data, u) == account_data.is_admin

\* Line 135: the record marks an administrator who does not hold the admin
\* role yet.
NeedsAdminRole(account_data, u) ==
    account_data.is_admin /\ AdminRole \notin u.roles

\* Lines 134-137: a new administrator gets the admin role and is saved.
AddAdmin ==
    /\ pc = "admin"
    /\ IF NeedsAdminRole(AccountData, users[user])
       THEN LET after == [users[user] EXCEPT !.roles = AddRole(@, AdminRole)]
            IN  /\ users' = [users EXCEPT ![user] = after]
                /\ ops' = <<Ev("add", "UserRole", <<users[user].hrid, AdminRole>>),
                            Ev("save", "User", after)>>
       ELSE /\ users' = users
            /\ ops' = <<>>
    /\ pc' = "groups"
    /\ groups_pos' = 1
    /\ UNCHANGED <<roles, groups, memberships, aliases, jsondata, idx_account,
                   err, user, email_pos, current_user_aliases, runs, rerun, accounts_pool, resolve_input, resolve_result>>

\* Mutant of PermsChanged: a membership that existed is always saved.
PermsChangedAlways(created, membership, perms) == ~created

\* Line 147: the membership existed and holds another permission
PermsChanged(created, membership, perms) ==
    ~created /\ membership.perms # perms

\* What stays as it is while the loops of one record advance.
LoopFrame == UNCHANGED <<jsondata, idx_account, err, user, runs, rerun, accounts_pool, resolve_input, resolve_result>>

\* Lines 140-153, one iteration: get or create the group and the membership,
\* update the permission if it differs, validate.
ImportGroup ==
    /\ pc = "groups"
    /\ groups_pos <= Len(AccountData.groups)
    /\ UNCHANGED <<roles, users, aliases>>
    /\ LET groupname == AccountData.groups[groups_pos][1]
           perms == AccountData.groups[groups_pos][2]
           gfound == GroupPks(groups, groupname)
           group == IF gfound = {} THEN Len(groups) + 1 ELSE TheOne(gfound)
           gops == IF gfound = {}
                   THEN <<Ev("create", "Group", [shortname |-> groupname])>>
                   ELSE <<>>
           mfound == MembershipPks(group, user)
           created == mfound = {}
           fresh == [group |-> group, user |-> user, perms |-> perms]
           membership == IF created THEN fresh ELSE memberships[TheOne(mfound)]
           continue == /\ pc' = "groups"
                       /\ groups_pos' = groups_pos + 1
                       /\ UNCHANGED <<email_pos, current_user_aliases>>
                       /\ LoopFrame
       IN  IF Cardinality(gfound) > 1
           THEN /\ Raise("MultipleObjectsReturned")
                /\ ops' = <<>>
                /\ UNCHANGED <<groups, memberships>>
           ELSE
             /\ groups' = IF gfound = {}
                          THEN Append(groups, [shortname |-> groupname])
                          ELSE groups
             /\ IF Cardinality(mfound) > 1
                THEN /\ Raise("MultipleObjectsReturned")
                     /\ ops' = gops
                     /\ UNCHANGED memberships
                ELSE IF PermsChanged(created, membership, perms)
                THEN LET changed == [membership EXCEPT !.perms = perms]
                     IN  IF ~MembershipFullClean(changed)
                         THEN /\ Raise("ValidationError")
                              /\ ops' = gops \o
                                   <<Ev("validate", "GroupMembership", changed)>>
                              /\ UNCHANGED memberships
                         ELSE /\ continue
                              /\ ops' = gops \o
                                   <<Ev("validate", "GroupMembership", changed),
                                     Ev("save", "GroupMembership", changed)>>
                              /\ memberships' =
                                   [memberships EXCEPT ![TheOne(mfound)] = changed]
                ELSE /\ memberships' = IF created THEN Append(memberships, fresh)
                                       ELSE memberships
                     /\ ops' = gops \o
                          (IF created
                           THEN <<Ev("create", "GroupMembership", fresh)>>
                           ELSE <<>>) \o
                          <<Ev("validate", "GroupMembership", membership)>>
                     /\ IF ~MembershipFullClean(membership)
                        THEN Raise("ValidationError")
                        ELSE continue

\* Line 156: load the aliases the user has.
LoadAliases ==
    /\ pc = "groups"
    /\ groups_pos > Len(AccountData.groups)
    /\ current_user_aliases' =
          {aliases[i].email : i \in {j \in DOMAIN aliases : aliases[j].user = user}}
    /\ pc' = "aliases"
    /\ email_pos' = 1
    /\ groups_pos' = 0
    /\ ops' = <<>>
    /\ UNCHANGED store
    /\ LoopFrame

\* Lines 157-169, one iteration: create the alias unless the user had it or it
\* exists; an alias of another user is a conflict.
ImportAlias ==
    /\ pc = "aliases"
    /\ email_pos <= Len(AccountData.email_source)
    /\ UNCHANGED <<roles, users, groups, memberships>>
    /\ LET email == Lower(AccountData.email_source[email_pos])
           found == AliasPks(email)
           alias == [user |-> user, email |-> email]
           continue == /\ pc' = "aliases"
                       /\ email_pos' = email_pos + 1
                       /\ UNCHANGED <<groups_pos, current_user_aliases>>
                       /\ LoopFrame
       IN  IF email \in current_user_aliases
           THEN continue /\ ops' = <<>> /\ UNCHANGED aliases
           ELSE IF Cardinality(found) > 1
           THEN Raise("MultipleObjectsReturned") /\ ops' = <<>> /\ UNCHANGED aliases
           ELSE IF found = {}
           THEN IF ~AliasFullClean(alias)
                THEN /\ Raise("ValidationError")
                     /\ ops' = <<Ev("validate", "UserAlias", alias)>>
                     /\ UNCHANGED aliases
                ELSE /\ continue
                     /\ ops' = <<Ev("validate", "UserAlias", alias),
                                 Ev("create", "UserAlias", alias)>>
                     /\ aliases' = Append(aliases, alias)
           ELSE IF aliases[TheOne(found)].user # user
           THEN Raise("DuplicateAlias") /\ ops' = <<>> /\ UNCHANGED aliases
           ELSE continue /\ ops' = <<>> /\ UNCHANGED aliases

\* Mutant of AliasLoopOver: the loop over the emails may be left at any point.
AliasLoopLeftEarly == TRUE

\* Lines 157-169: the loop over email_source has gone through every email.
AliasLoopOver == email_pos > Len(AccountData.email_source)

\* Lines 171-176: attach the role of the account type unless it is held.
ImportTypeRole ==
    /\ pc = "aliases"
    /\ AliasLoopOver
    /\ UNCHANGED <<roles, groups, memberships, aliases>>
    /\ IF AccountData.type \notin TypeRoleNames
       THEN Raise("KeyError") /\ ops' = <<>> /\ UNCHANGED users
       ELSE IF AccountData.type \in users[user].roles
       THEN NextAccount /\ ops' = <<>> /\ UNCHANGED users
       ELSE LET after == [users[user] EXCEPT !.roles = AddRole(@, AccountData.type)]
                link == Ev("add", "UserRole", <<users[user].hrid, AccountData.type>>)
            IN  /\ users' = [users EXCEPT ![user] = after]
                /\ IF ~UserFullClean(after)
                   THEN /\ Raise("ValidationError")
                        /\ ops' = <<link, Ev("validate", "User", after)>>
                   ELSE /\ NextAccount
                        /\ ops' = <<link, Ev("validate", "User", after),
                                    Ev("save", "User", after)>>

\* The loop of line 47 is over: handle() returns.
FinishRun ==
    /\ pc = "account"
    /\ idx_account > Len(jsondata.accounts)
    /\ pc' = "exit"
    /\ ops' = <<>>
    /\ UNCHANGED <<store, jsondata, idx_account, err, user, groups_pos,
                   email_pos, current_user_aliases, runs, rerun, accounts_pool, resolve_input, resolve_result>>

\* The process exits and its locals are gone.  The document of a run that
\* completed stays known, to tell when the next run imports it again.
Exit ==
    /\ pc = "exit"
    /\ pc' = "idle"
    /\ jsondata' = IF err = NoErr THEN jsondata ELSE NoDocument
    /\ idx_account' = 0
    /\ ops' = <<>>
    /\ rerun' = FALSE
    /\ UNCHANGED <<store, err, user, groups_pos, email_pos,
                   current_user_aliases, runs, accounts_pool, resolve_input, resolve_result>>

----------------------------------------------------------------------------
(* The store before the first run. *)

\* A store that holds the admin role only.
FreshStore ==
    << <<[hrid |-> AdminRole, display |-> "Administrator"]>>, <<>>, <<>>, <<>>, <<>> >>

\* The user row that importing a record into an empty store leaves.
ImportedUser(account_data, user_roles) ==
    [SetFields(NewUser(account_data.hruid),
               UserFields(ResolveDisplayName(account_data).data))
        EXCEPT !.password = PasswordAfter(TRUE, NewUser(account_data.hruid),
                                          account_data.password),
               !.roles = user_roles]

\* The store after AccountOneChanged and AccountTwoExternal were imported
\* into a fresh one: an administrator with a password and no alias, and an
\* external user without password who holds both aliases.
SeededStore ==
    << BootstrapFrom(1, FreshStore[1], <<>>).roles,
       <<ImportedUser(AccountOneChanged, {AdminRole, "master"}),
         ImportedUser(AccountTwoExternal, {"xnet"})>>,
       <<[shortname |-> "g1"], [shortname |-> "g2"]>>,
       <<[group |-> 1, user |-> 1, perms |-> "admin"],
         [group |-> 1, user |-> 2, perms |-> "member"],
         [group |-> 2, user |-> 2, perms |-> "member"]>>,
       <<[user |-> 2, email |-> EmailB], [user |-> 2, email |-> EmailA]>> >>

InitialStores == {FreshStore, SeededStore}

\* The fallback of lines 66-87 has not been applied to the record yet.
NotResolved(account_data) ==
    [done |-> FALSE, err |-> NoErr, data |-> account_data]

Init ==
    /\ \E s \in InitialStores :
          /\ roles = s[1]
          /\ users = s[2]
          /\ groups = s[3]
          /\ memberships = s[4]
          /\ aliases = s[5]
    /\ accounts_pool \in AccountPools
    /\ jsondata = NoDocument
    /\ idx_account = 0
    /\ pc = "idle"
    /\ err = NoErr
    /\ user = 0
    /\ groups_pos = 0
    /\ email_pos = 0
    /\ current_user_aliases = {}
    /\ ops = <<>>
    /\ runs = 0
    /\ rerun = FALSE
    /\ resolve_input = AccountOne
    /\ resolve_result = NotResolved(AccountOne)

Next ==
    \/ StartRun
    \/ Bootstrap
    \/ SkipVirtual
    \/ ReconcileUser
    \/ AddAdmin
    \/ ImportGroup
    \/ LoadAliases
    \/ ImportAlias
    \/ ImportTypeRole
    \/ FinishRun
    \/ Exit

Spec == Init /\ [][Next]_vars

----------------------------------------------------------------------------
(* The display name fallback on its own. *)

\* The records the fallback is applied to: with and without display name,
\* first name and full name, external or not, over addresses with one '@',
\* two, none, no local part, and the empty address.
ResolveInputs ==
    {[BaseAccount("u1") EXCEPT !.display_name = d, !.firstname = f,
                               !.full_name = n, !.type = t, !.email = e] :
        d \in {<<>>, NameAl}, f \in {<<>>, NameBo},
        n \in {<<>>, NameAl \o <<" ">> \o NameLee}, t \in {"x", "xnet"},
        e \in {EmailB, EmailAUpper, EmailTwoAts, EmailNoLocal, EmailNoAt, <<>>}}

InitResolve ==
    /\ roles = FreshStore[1]
    /\ users = FreshStore[2]
    /\ groups = FreshStore[3]
    /\ memberships = FreshStore[4]
    /\ aliases = FreshStore[5]
    /\ accounts_pool = {}
    /\ jsondata = NoDocument
    /\ idx_account = 0
    /\ pc = "idle"
    /\ err = NoErr
    /\ user = 0
    /\ groups_pos = 0
    /\ email_pos = 0
    /\ current_user_aliases = {}
    /\ ops = <<>>
    /\ runs = 0
    /\ rerun = FALSE
    /\ resolve_input \in ResolveInputs
    /\ resolve_result = NotResolved(resolve_input)

\* Lines 66-87 applied to the record.
Resolve ==
    /\ ~resolve_result.done
    /\ resolve_result' = [done |-> TRUE,
                          err |-> ResolveDisplayName(resolve_input).err,
                          data |-> ResolveDisplayName(resolve_input).data]
    /\ UNCHANGED <<store, jsondata, idx_account, pc, err, user, groups_pos,
                   email_pos, current_user_aliases, ops, runs, rerun,
                   accounts_pool, resolve_input>>

NextResolve == Resolve

SpecResolve == InitResolve /\ [][NextResolve]_vars

----------------------------------------------------------------------------
(* Vocabulary of the properties. *)

\* An entry of the step's log that writes to the store.
IsWrite(e) == e.op \in {"create", "save", "add"}

\* The step wrote nothing.
WritesNothing == \A i \in DOMAIN ops : ~IsWrite(ops[i])

\* The loop is at a record.
AtRecord == pc = "account" /\ idx_account <= Len(jsondata.accounts)

\* No two imported (non-virtual) records of the document have the same hruid.
DistinctHrids(doc) ==
    \A i, j \in DOMAIN doc.accounts :
        (i # j /\ doc.accounts[i].type # "virtual" /\ doc.accounts[j].type # "virtual")
            => doc.accounts[i].hruid # doc.accounts[j].hruid

\* The run has ended without error.
Completed == pc = "exit" /\ err = NoErr

\* Two texts are the same once lower-cased.
SameIgnoringCase(s, t) ==
    Len(s) = Len(t) /\ \A i \in 1..Len(s) : LowerChar(s[i]) = LowerChar(t[i])

\* The local part of an address is empty.
EmptyLocalPart(email) == email = <<>> \/ email[1] = "@"

----------------------------------------------------------------------------
(* C1: idempotence. *)

\* C1 as stated: a run that imports again the document of the run before it,
\* which completed without error, writes nothing to the store.
C1_RerunWritesNothing == rerun => WritesNothing

\* C1, amended: when no two non-virtual records of the document share an
\* hruid, a run that imports again the document of the run before it, which
\* completed without error, logs no write and leaves every table as it is.
C1_RerunOfDistinctHridsWritesNothing ==
    /\ [](rerun /\ DistinctHrids(jsondata) => WritesNothing)
    /\ [][rerun /\ DistinctHrids(jsondata) => UNCHANGED store]_vars

\* A second import of a document of two records of different users has completed.
C1_Witness ==
    /\ rerun
    /\ Completed
    /\ Len(jsondata.accounts) = 2
    /\ DistinctHrids(jsondata)
    /\ \A i \in 1..2 : jsondata.accounts[i].type # "virtual"

----------------------------------------------------------------------------
(* C2: an email has one alias, and an alias keeps its user. *)

\* C2: no two alias rows hold the same lower-cased email, and no step removes
\* an alias row or changes its email or its user.
C2_AliasUniqueAndStable ==
    /\ [](\A i, j \in DOMAIN aliases :
             SameIgnoringCase(aliases[i].email, aliases[j].email) => i = j)
    /\ [][\A i \in DOMAIN aliases :
             i \in DOMAIN aliases' /\ aliases'[i] = aliases[i]]_vars

\* Both spellings of u1's alias were processed and one alias row came of it.
C2_Witness ==
    /\ pc = "aliases"
    /\ email_pos = 3
    /\ AccountData.email_source = <<EmailAUpper, EmailA>>
    /\ Cardinality({i \in DOMAIN aliases : aliases[i].email = EmailA}) = 1
    /\ \E i \in DOMAIN aliases : aliases[i].email = EmailA /\ aliases[i].user = user

----------------------------------------------------------------------------
(* C3: an email claimed by two users. *)

\* The alias loop is at an email that an alias of another user holds.
AtConflictingEmail ==
    /\ pc = "aliases"
    /\ email_pos <= Len(AccountData.email_source)
    /\ \E i \in DOMAIN aliases :
          /\ aliases[i].email = Lower(AccountData.email_source[email_pos])
          /\ aliases[i].user # user

\* C3: when the alias loop reaches an email that another user's alias holds,
\* the run ends with DuplicateAlias and no alias is created; the loop never
\* gets past an email without the record's user owning its alias; and no run
\* completes on a document in which two users reference the same email.
C3_SecondClaimantFails ==
    /\ [][AtConflictingEmail =>
            (pc' = "exit" /\ err' = "DuplicateAlias" /\ aliases' = aliases)]_vars
    /\ [](pc = "aliases" =>
            \A k \in 1..(email_pos - 1) :
               \E i \in DOMAIN aliases :
                  /\ aliases[i].email = Lower(AccountData.email_source[k])
                  /\ aliases[i].user = user)
    /\ [](Completed =>
            \A m, n \in DOMAIN jsondata.accounts :
               LET a == jsondata.accounts[m]
                   b == jsondata.accounts[n]
               IN  (a.type # "virtual" /\ b.type # "virtual" /\ a.hruid # b.hruid)
                   => \A k \in DOMAIN a.email_source, l \in DOMAIN b.email_source :
                         Lower(a.email_source[k]) # Lower(b.email_source[l]))

\* The second record of a run claimed an email of the first record's user, and
\* the run ended with DuplicateAlias.
C3_Witness ==
    /\ pc = "exit"
    /\ err = "DuplicateAlias"
    /\ idx_account = 2
    /\ jsondata.accounts[1].hruid # jsondata.accounts[2].hruid
    /\ \E k \in DOMAIN jsondata.accounts[1].email_source,
          l \in DOMAIN jsondata.accounts[2].email_source :
          Lower(jsondata.accounts[1].email_source[k])
             = Lower(jsondata.accounts[2].email_source[l])

----------------------------------------------------------------------------
(* C4: a usable credential is preserved. *)

\* The loop is at a record of a user who exists with a usable credential.
AtRecordOfUsableUser ==
    /\ AtRecord
    /\ AccountData.type # "virtual"
    /\ \E k \in DOMAIN users :
          users[k].hrid = AccountData.hruid /\ HasUsablePassword(users[k])

\* C4: no step changes the stored credential of a user whose credential is
\* usable; and the step that reconciles a record with such a user, when the
\* mapped fields of the record equal the stored ones, writes nothing, whatever
\* the record's password is.
C4_UsableCredentialKept ==
    /\ [][\A k \in DOMAIN users :
             HasUsablePassword(users[k]) =>
                k \in DOMAIN users' /\ users'[k].password = users[k].password]_vars
    /\ [][(/\ AtRecordOfUsableUser
           /\ ResolveDisplayName(AccountData).err = NoErr
           /\ \A k \in DOMAIN users :
                 users[k].hrid = AccountData.hruid =>
                    \A f \in FieldNames :
                       users[k][f] = UserFields(ResolveDisplayName(AccountData).data)[f])
             => (users' = users /\ ops' = <<>> /\ pc' = "admin")]_vars

\* A record with another password than the stored usable one was reconciled
\* with its user, and nothing was written.
C4_Witness ==
    /\ pc = "admin"
    /\ ops = <<>>
    /\ AccountData.password = "sha1-two"
    /\ users[user].password = EncodeSha1Hash("sha1-one")

----------------------------------------------------------------------------
(* C5: the credential policy. *)

\* C5: when the step that reconciles the user goes through, the credential is
\* the hash of the record's password if that password is not empty and the
\* user is new or had an unusable credential, and the user is then written
\* with that usable credential; otherwise a new user has the unusable
\* credential and an existing user the credential it had.
C5_CredentialPolicy ==
    [][(AtRecord /\ AccountData.type # "virtual" /\ pc' = "admin") =>
         LET p == AccountData.password
             is_new == \A k \in DOMAIN users : users[k].hrid # AccountData.hruid
             hashes == p # "" /\ (is_new \/ ~HasUsablePassword(users[user']))
         IN  /\ users'[user'].hrid = AccountData.hruid
             /\ users'[user'].password =
                   IF hashes THEN EncodeSha1Hash(p)
                   ELSE IF is_new THEN UnusablePassword
                   ELSE users[user'].password
             /\ hashes =>
                   /\ HasUsablePassword(users'[user'])
                   /\ \E i \in DOMAIN ops' :
                         /\ ops'[i].op \in {"create", "save"}
                         /\ ops'[i].ent = "User"
                         /\ ops'[i].val = users'[user']]_vars

\* An existing user without usable credential was saved with the hash of the
\* record's password.
C5_Witness ==
    /\ pc = "admin"
    /\ jsondata.accounts[idx_account] = AccountTwo
    /\ Len(ops) = 2
    /\ ops[2].op = "save"
    /\ users[user].password = EncodeSha1Hash("sha1-one")

----------------------------------------------------------------------------
(* C6: validation before every persist. *)

\* C6: every create or save of a Role, User, Group, GroupMembership or
\* UserAlias in a step's log directly follows a validation of the same entity
\* with the same values.
C6_ValidatedBeforeEveryPersist ==
    \A i \in DOMAIN ops :
        ops[i].op \in {"create", "save"} =>
            /\ i > 1
            /\ ops[i - 1].op = "validate"
            /\ ops[i - 1].ent = ops[i].ent
            /\ ops[i - 1].val = ops[i].val

----------------------------------------------------------------------------
(* C7: records in order, and an error ends the batch. *)

\* C7: the loop index only goes from one record to the next; the step in which
\* an error is raised ends the run at that record and keeps every row the
\* store held (only the user of the record may differ); and once an error was
\* raised nothing is written to the store until another run starts.
C7_OrderAndAbort ==
    /\ [][idx_account' # idx_account =>
            (idx_account' = idx_account + 1 \/ (pc = "exit" /\ idx_account' = 0))]_vars
    /\ [][(err = NoErr /\ err' # NoErr /\ pc # "idle") =>
            /\ pc' = "exit"
            /\ idx_account' = idx_account
            /\ \A k \in DOMAIN roles : k \in DOMAIN roles' /\ roles'[k] = roles[k]
            /\ \A k \in DOMAIN groups : k \in DOMAIN groups' /\ groups'[k] = groups[k]
            /\ \A k \in DOMAIN memberships :
                  k \in DOMAIN memberships' /\ memberships'[k] = memberships[k]
            /\ \A k \in DOMAIN aliases : k \in DOMAIN aliases' /\ aliases'[k] = aliases[k]
            /\ \A k \in DOMAIN users :
                  k \in DOMAIN users' /\ (k # user => users'[k] = users[k])]_vars
    /\ [][err # NoErr => (UNCHANGED store /\ pc' \in {"exit", "idle", "bootstrap"})]_vars

\* The first run ended with one of the three errors at the second record,
\* with the user of the first record in the store.
C7_Witness ==
    /\ pc = "exit"
    /\ err \in {"IncompleteRecord", "ValidationError", "DuplicateAlias"}
    /\ idx_account = 2
    /\ \E k \in DOMAIN users : users[k].hrid = jsondata.accounts[1].hruid
    /\ jsondata.accounts[1].type # "virtual"

----------------------------------------------------------------------------
(* C8: incomplete records. *)

\* The loop is at a record without display name nor first name that is not
\* external, or is external with an email without local part.
AtIncompleteRecord ==
    /\ AtRecord
    /\ AccountData.type # "virtual"
    /\ AccountData.display_name = <<>>
    /\ AccountData.firstname = <<>>
    /\ (AccountData.type # "xnet" \/ EmptyLocalPart(AccountData.email))

\* C8: the step at an incomplete record ends the run with IncompleteRecord,
\* writes nothing and leaves every table as it is.
C8_IncompleteRecordAborts ==
    [][AtIncompleteRecord =>
         (pc' = "exit" /\ err' = "IncompleteRecord" /\ ops' = <<>> /\ UNCHANGED store)]_vars

\* The run ended with IncompleteRecord at the external record whose email has
\* no local part.
C8_Witness ==
    /\ pc = "exit"
    /\ err = "IncompleteRecord"
    /\ jsondata.accounts[idx_account] = AccountNoLocalPart

----------------------------------------------------------------------------
(* C9: virtual accounts. *)

\* C9: the step at a virtual record writes nothing, leaves every table as it
\* is, raises no error and goes to the next record.
C9_VirtualChangesNothing ==
    [][(AtRecord /\ AccountData.type = "virtual") =>
         /\ UNCHANGED store
         /\ ops' = <<>>
         /\ err' = NoErr
         /\ pc' = "account"
         /\ idx_account' = idx_account + 1]_vars

\* The virtual record, with groups, aliases and the administrator flag, was
\* passed.
C9_Witness ==
    /\ pc = "account"
    /\ idx_account = 2
    /\ jsondata.accounts[1] = AccountVirtual
    /\ err = NoErr

----------------------------------------------------------------------------
(* C10: the role catalog. *)

\* The identifiers of the role rows.
RoleHrids == {roles[i].hrid : i \in DOMAIN roles}

\* Exactly the enumerated roles exist, each once.
RolesExact ==
    /\ RoleHrids = TypeRoleNames \cup {AdminRole}
    /\ Len(roles) = Cardinality(TypeRoleNames \cup {AdminRole})

\* C10 as stated: after any run exactly the enumerated roles exist, each once.
C10_RolesExactAfterAnyRun == pc = "exit" => RolesExact

\* C10, amended: no role identifier is ever held twice nor lies outside the
\* enumeration; after the bootstrap of any run whose document has the accounts
\* key exactly the enumerated roles exist, each once; and a bootstrap over a
\* store that holds them writes nothing and leaves the role table as it is.
C10_RolesExactAfterBootstrap ==
    /\ [](/\ \A i, j \in DOMAIN roles : roles[i].hrid = roles[j].hrid => i = j
          /\ RoleHrids \subseteq TypeRoleNames \cup {AdminRole})
    /\ []((pc \in {"account", "admin", "groups", "aliases"}
           \/ (pc = "exit" /\ err # "MissingAccountsCollection")) => RolesExact)
    /\ [][(pc = "bootstrap" /\ RolesExact) => (roles' = roles /\ ops' = <<>>)]_vars

\* A second run has bootstrapped over the roles of the first and wrote nothing.
C10_Witness ==
    /\ runs = 2
    /\ pc = "account"
    /\ idx_account = 1
    /\ ops = <<>>
    /\ RolesExact


----------------------------------------------------------------------------
(* C11: update of an existing membership. *)

\* The group loop is at a group in which the record's user has a membership.
AtExistingMembership(k) ==
    /\ pc = "groups"
    /\ groups_pos <= Len(AccountData.groups)
    /\ k \in DOMAIN memberships
    /\ memberships[k].user = user
    /\ memberships[k].group \in DOMAIN groups
    /\ groups[memberships[k].group].shortname = AccountData.groups[groups_pos][1]

\* The writes of memberships in a log.
MembershipWrites(log) ==
    {i \in DOMAIN log : IsWrite(log[i]) /\ log[i].ent = "GroupMembership"}

\* C11: at a group in which the user has a membership, if the stored
\* permission differs from the record's and the step goes through, the
\* membership holds the record's permission after the step, which logs exactly
\* one membership write, and no other membership row changes; if the stored
\* permission equals the record's, the step validates the membership, logs no
\* membership write and leaves the membership table as it is.
C11_MembershipUpdate ==
    [][\A k \in DOMAIN memberships :
          AtExistingMembership(k) =>
             LET perms == AccountData.groups[groups_pos][2]
             IN  IF memberships[k].perms # perms
                 THEN pc' = "groups" =>
                        /\ memberships' = [memberships EXCEPT ![k].perms = perms]
                        /\ Cardinality(MembershipWrites(ops')) = 1
                 ELSE /\ memberships' = memberships
                      /\ MembershipWrites(ops') = {}
                      /\ \E i \in DOMAIN ops' :
                            /\ ops'[i].op = "validate"
                            /\ ops'[i].ent = "GroupMembership"
                            /\ ops'[i].val = memberships[k]]_vars

\* The membership of u1 in g1 was updated from member to admin with one save.
C11_Witness ==
    /\ pc = "groups"
    /\ groups_pos = 2
    /\ AccountData = AccountOneChanged
    /\ Len(ops) = 2
    /\ ops[2] = Ev("save", "GroupMembership",
                   [group |-> ops[2].val.group, user |-> user, perms |-> "admin"])
    /\ Cardinality(MembershipWrites(ops)) = 1


----------------------------------------------------------------------------
(* C12: the role of the account type. *)

\* The role identifiers the specification enumerates for account types.
EnumeratedTypes == {"x", "master", "phd", "ax", "fx", "school", "xnet"}

\* The alias loop of the record is over: the type role step is next.
AtTypeRoleStep ==
    pc = "aliases" /\ email_pos > Len(AccountData.email_source)

\* What the type role step does: it fails by ValidationError only; when it
\* goes through the user holds the role of the account type; a role that was
\* held is not attached again and the user is neither validated nor saved; a
\* role that was not held is attached and the user validated, and saved when
\* valid.
TypeRoleStepDone ==
    LET type == AccountData.type
        link == Ev("add", "UserRole", <<users[user].hrid, type>>)
    IN  /\ err' \in {NoErr, "ValidationError"}
        /\ err' = NoErr => (type \in users'[user].roles /\ pc' = "account")
        /\ IF type \in users[user].roles
           THEN users' = users /\ ops' = <<>> /\ err' = NoErr
           ELSE /\ Len(ops') >= 2
                /\ ops'[1] = link
                /\ ops'[2] = Ev("validate", "User", users'[user])
                /\ err' = NoErr => (Len(ops') = 3
                                    /\ ops'[3] = Ev("save", "User", users'[user]))

\* C12 as stated: for a record of any account type the type role step does
\* the above.
C12_TypeRoleWhateverType == [][AtTypeRoleStep => TypeRoleStepDone]_vars

\* C12, amended: for a record whose account type is one of the enumerated
\* role identifiers the type role step does the above; and the user of every
\* non-virtual record that the loop has passed holds the role of the record's
\* account type.
C12_TypeRoleOfEnumeratedType ==
    /\ [][(AtTypeRoleStep /\ AccountData.type \in EnumeratedTypes)
            => TypeRoleStepDone]_vars
    /\ [](pc = "account" =>
            \A n \in 1..(idx_account - 1) :
               jsondata.accounts[n].type # "virtual" =>
                  \E k \in DOMAIN users :
                     /\ users[k].hrid = jsondata.accounts[n].hruid
                     /\ jsondata.accounts[n].type \in users[k].roles)

\* The external role was attached to the user of the first record, who was
\* validated and saved.
C12_Witness ==
    /\ pc = "account"
    /\ idx_account = 2
    /\ jsondata.accounts[1].type = "xnet"
    /\ Len(ops) = 3
    /\ ops[1] = Ev("add", "UserRole", <<jsondata.accounts[1].hruid, "xnet">>)
    /\ ops[3].op = "save"


----------------------------------------------------------------------------
(* C13: the admin role. *)

\* C13: the admin step of a record marked is_admin leaves the user holding
\* the admin role; the role is attached and the user saved exactly when the
\* role was not held, and nothing is written when it was.
C13_AdminRole ==
    [][(pc = "admin" /\ AccountData.is_admin) =>
         /\ AdminRole \in users'[user].roles
         /\ IF AdminRole \in users[user].roles
            THEN users' = users /\ ops' = <<>>
            ELSE /\ users' = [users EXCEPT ![user].roles = @ \cup {AdminRole}]
                 /\ ops' = <<Ev("add", "UserRole",
                                <<users[user].hrid, AdminRole>>),
                             Ev("save", "User", users'[user])>>]_vars

\* The admin step met an administrator who held the role already and wrote
\* nothing.
C13_Witness ==
    /\ pc = "groups"
    /\ groups_pos = 1
    /\ AccountData.is_admin
    /\ AdminRole \in users[user].roles
    /\ ops = <<>>
    /\ Len(AccountData.groups) > 0


----------------------------------------------------------------------------
(* C15: a dataset without the accounts collection. *)

\* C15: a run on a dataset that lacks the accounts key ends at once with
\* MissingAccountsCollection: no store operation is made, the store with its
\* roles is as it was and no record is reached.
C15_MissingAccountsAborts ==
    [][(pc = "idle" /\ pc' # "idle" /\ ~jsondata'.has_accounts) =>
         /\ err' = "MissingAccountsCollection"
         /\ pc' = "exit"
         /\ store' = store
         /\ ops' = <<>>
         /\ idx_account' = 0]_vars

\* The first run, on a dataset without the key, has aborted over a store
\* that holds only the admin role.
C15_Witness ==
    /\ pc = "exit"
    /\ err = "MissingAccountsCollection"
    /\ ~jsondata.has_accounts
    /\ runs = 1
    /\ store = FreshStore


----------------------------------------------------------------------------
(* C16: uniqueness of users, groups and memberships. *)

\* C16: at every moment of every run the store holds at most one user per
\* hrid, at most one group per shortname and at most one membership per pair
\* of group and user.
C16_UniqueKeys ==
    /\ \A i, j \in DOMAIN users : users[i].hrid = users[j].hrid => i = j
    /\ \A i, j \in DOMAIN groups :
          groups[i].shortname = groups[j].shortname => i = j
    /\ \A i, j \in DOMAIN memberships :
          (memberships[i].group = memberships[j].group
             /\ memberships[i].user = memberships[j].user) => i = j

\* A dataset with two records of one hrid and one group was imported into
\* an empty store: one user, one group, one membership.
C16_Witness ==
    /\ Completed
    /\ Len(jsondata.accounts) = 2
    /\ jsondata.accounts[1].hruid = jsondata.accounts[2].hruid
    /\ jsondata.accounts[1].groups # <<>>
    /\ jsondata.accounts[2].groups # <<>>
    /\ jsondata.accounts[1].groups[1][1] = jsondata.accounts[2].groups[1][1]
    /\ Len(users) = 1
    /\ Len(groups) = 1
    /\ Len(memberships) = 1


----------------------------------------------------------------------------
(* C17: the order of the steps of a record. *)

\* The step attaches a role to a user.
RoleAttached == \E k \in DOMAIN users : users'[k].roles # users[k].roles

\* Every group of the record has a membership of the record's user.
GroupsProcessed ==
    \A n \in DOMAIN AccountData.groups :
       \E k \in DOMAIN memberships :
          /\ memberships[k].user = user
          /\ memberships[k].group \in DOMAIN groups
          /\ groups[memberships[k].group].shortname = AccountData.groups[n][1]

\* Every email of the record is, lower-cased, an alias of the record's user.
AliasesProcessed ==
    \A n \in DOMAIN AccountData.email_source :
       \E k \in DOMAIN aliases :
          /\ aliases[k].user = user
          /\ SameIgnoringCase(aliases[k].email, AccountData.email_source[n])

\* The entities the step's store operations are about.
EntitiesOf(log) == {log[i].ent : i \in DOMAIN log}

\* C17 as stated: no role, admin or type-derived, is attached to the user of
\* a record before all groups and all aliases of the record were processed.
C17_RolesAfterGroupsAndAliases ==
    [][RoleAttached => (pc \in {"admin", "groups", "aliases"}
                        /\ GroupsProcessed /\ AliasesProcessed)]_vars

\* C17, amended: a record goes through user reconciliation, the admin role,
\* the groups, the aliases and the type role in this order; each step works
\* on its own entities; the admin role is attached at the admin step only,
\* and the type role only when all groups and all aliases of the record were
\* processed.
C17_StepOrder ==
    [][/\ (pc = "account" /\ pc' \notin {"account", "exit"}) => pc' = "admin"
       /\ pc = "admin" => pc' = "groups"
       /\ (pc = "groups" /\ pc' \notin {"groups", "exit"}) => pc' = "aliases"
       /\ (pc = "aliases" /\ pc' \notin {"aliases", "exit"}) => pc' = "account"
       /\ pc = "account" => EntitiesOf(ops') \subseteq {"User"}
       /\ pc = "admin" => EntitiesOf(ops') \subseteq {"UserRole", "User"}
       /\ pc = "groups" => EntitiesOf(ops') \subseteq {"Group", "GroupMembership"}
       /\ pc = "aliases" =>
             EntitiesOf(ops') \subseteq {"UserAlias", "UserRole", "User"}
       /\ (pc = "account" /\ pc' = "admin") =>
             users'[user'].roles = IF user' \in DOMAIN users
                                   THEN users[user'].roles ELSE {}
       /\ RoleAttached =>
             \/ /\ pc = "admin"
                /\ users' = [users EXCEPT ![user].roles = @ \cup {AdminRole}]
             \/ /\ pc = "aliases"
                /\ GroupsProcessed
                /\ AliasesProcessed
                /\ users' = [users EXCEPT
                               ![user].roles = @ \cup {AccountData.type}]]_vars

\* The type role was attached to the user of a record with a group and two
\* emails, after the membership and the alias were made.
C17_Witness ==
    /\ pc = "account"
    /\ idx_account = 2
    /\ jsondata.accounts[1] = AccountOne
    /\ ops # <<>>
    /\ ops[1] = Ev("add", "UserRole", <<AccountOne.hruid, AccountOne.type>>)
    /\ \E k \in DOMAIN memberships :
          users[memberships[k].user].hrid = AccountOne.hruid
    /\ \E k \in DOMAIN aliases :
          aliases[k].email = EmailA /\ users[aliases[k].user].hrid = AccountOne.hruid


----------------------------------------------------------------------------
(* C18: convergence. *)

\* p is the text of s before its first '@', or s when it has none.
IsTextBeforeAt(p, s) ==
    /\ Len(p) <= Len(s)
    /\ \A i \in 1..Len(p) : p[i] = s[i] /\ p[i] # "@"
    /\ Len(p) < Len(s) => s[Len(p) + 1] = "@"

RECURSIVE DecimalValue(_)
\* The number a text of decimal digits writes.
DecimalValue(s) ==
    IF s = <<>> THEN 0
    ELSE 10 * DecimalValue(SubSeq(s, 1, Len(s) - 1))
         + (CHOOSE d \in 0..9 : Digits[d + 1] = s[Len(s)])

\* The user row u holds the mapped values of record r in its eleven fields.
HoldsMappedValues(u, r) ==
    /\ IF r.display_name # <<>> THEN u.preferred_name = r.display_name
       ELSE IF r.firstname # <<>> THEN u.preferred_name = r.firstname
       ELSE IsTextBeforeAt(u.preferred_name, r.email)
    /\ IF r.full_name = <<>> /\ r.display_name = <<>> /\ r.firstname = <<>>
       THEN u.fullname = u.preferred_name
       ELSE u.fullname = r.full_name
    /\ SameIgnoringCase(u.main_email, r.email)
    /\ \A i \in DOMAIN u.main_email :
          \A j \in DOMAIN UpperChars : u.main_email[i] # UpperChars[j]
    /\ u.axid = r.ax_id
    /\ IF r.xorg_id = None \/ r.xorg_id = Some(0)
       THEN u.schoolid = None
       ELSE /\ Len(u.schoolid) = 1
            /\ DecimalValue(u.schoolid[1]) = r.xorg_id[1]
            /\ u.schoolid[1][1] # "0"
    /\ u.xorgdb_uid = r.uid
    /\ u.firstname = r.firstname
    /\ u.lastname = r.lastname
    /\ u.sex = r.sex
    /\ u.study_year = r.promo
    /\ u.grad_year = r.grad_year

\* C18: when a run on a dataset in which no two records share an hrid has
\* ended without error, every non-virtual record has a user of its hrid whose
\* eleven mapped fields hold the record's mapped values, who has a membership
\* with the record's permission in every group of the record, and who owns
\* an alias for every lower-cased email of the record.
C18_Convergence ==
    (Completed /\ DistinctHrids(jsondata)) =>
       \A n \in DOMAIN jsondata.accounts :
          LET r == jsondata.accounts[n]
          IN  r.type # "virtual" =>
                \E k \in DOMAIN users :
                   /\ users[k].hrid = r.hruid
                   /\ HoldsMappedValues(users[k], r)
                   /\ \A g \in DOMAIN r.groups :
                         \E m \in DOMAIN memberships :
                            /\ memberships[m].user = k
                            /\ memberships[m].group \in DOMAIN groups
                            /\ groups[memberships[m].group].shortname = r.groups[g][1]
                            /\ memberships[m].perms = r.groups[g][2]
                   /\ \A e \in DOMAIN r.email_source :
                         \E a \in DOMAIN aliases :
                            /\ aliases[a].user = k
                            /\ SameIgnoringCase(aliases[a].email, r.email_source[e])
                            /\ \A i \in DOMAIN aliases[a].email :
                                  \A j \in DOMAIN UpperChars :
                                     aliases[a].email[i] # UpperChars[j]

\* A run over two records of different hrids has ended without error on a
\* store that held both users with other field values.
C18_Witness ==
    /\ Completed
    /\ jsondata.accounts = <<AccountOneChanged, AccountTwo>>
    /\ Len(users) = 2
    /\ Len(memberships) = 3
    /\ users[2].firstname = NameBo
    /\ users[2].schoolid = None
    /\ users[1].lastname = NameKim


----------------------------------------------------------------------------
(* C19: nothing is removed. *)

\* C19: no step removes a role, a user, a group, a membership, an alias or
\* a role held by a user: every row stays, under its key, and the roles a
\* user holds only grow.
C19_NothingRemoved ==
    [][/\ \A k \in DOMAIN roles :
             k \in DOMAIN roles' /\ roles'[k].hrid = roles[k].hrid
       /\ \A k \in DOMAIN users :
             /\ k \in DOMAIN users'
             /\ users'[k].hrid = users[k].hrid
             /\ users[k].roles \subseteq users'[k].roles
       /\ \A k \in DOMAIN groups : k \in DOMAIN groups' /\ groups'[k] = groups[k]
       /\ \A k \in DOMAIN memberships :
             /\ k \in DOMAIN memberships'
             /\ memberships'[k].group = memberships[k].group
             /\ memberships'[k].user = memberships[k].user
       /\ \A k \in DOMAIN aliases :
             k \in DOMAIN aliases' /\ aliases'[k] = aliases[k]]_vars

\* A user was imported with one type, a group and two emails, and then as
\* an administrator of another type without emails: the user holds both type
\* roles and the admin role and still owns the alias.
C19_Witness ==
    /\ Completed
    /\ jsondata.accounts = <<AccountOne, AccountOneChanged>>
    /\ \E k \in DOMAIN users :
          /\ users[k].hrid = AccountOne.hruid
          /\ users[k].roles = {AccountOne.type, AccountOneChanged.type, AdminRole}
          /\ \E a \in DOMAIN aliases : aliases[a] = [user |-> k, email |-> EmailA]
          /\ \E m \in DOMAIN memberships :
                memberships[m].user = k /\ memberships[m].perms = "admin"


----------------------------------------------------------------------------
(* C14: the display name fallback. *)

\* C14: a display name that is not empty is kept, and the full name with it;
\* an empty one becomes the first name when there is one, the full name
\* being kept; otherwise, for an external record, it becomes the text before
\* the first '@' of the primary email, and an empty full name becomes that
\* text too while another full name is kept.
C14_DisplayNameFallback ==
    resolve_result.done =>
       LET r == resolve_input
           out == resolve_result.data
       IN  IF r.display_name # <<>>
           THEN /\ resolve_result.err = NoErr
                /\ out.display_name = r.display_name
                /\ out.full_name = r.full_name
           ELSE IF r.firstname # <<>>
           THEN /\ resolve_result.err = NoErr
                /\ out.display_name = r.firstname
                /\ out.full_name = r.full_name
           ELSE (r.type = "xnet" /\ ~EmptyLocalPart(r.email)) =>
                /\ resolve_result.err = NoErr
                /\ IsTextBeforeAt(out.display_name, r.email)
                /\ out.full_name = IF r.full_name = <<>> THEN out.display_name
                                   ELSE r.full_name

\* The fallback was applied to an external record without names whose
\* primary email has two '@'.
C14_Witness ==
    /\ resolve_result.done
    /\ resolve_input.display_name = <<>>
    /\ resolve_input.firstname = <<>>
    /\ resolve_input.full_name = <<>>
    /\ resolve_input.type = "xnet"
    /\ resolve_input.email = EmailTwoAts
    /\ resolve_result.data.display_name = <<"c">>
    /\ resolve_result.data.full_name = <<"c">>

====
